---- MODULE Spec2Model ----
(***************************************************************************)
(* Model of visualization.py: the catalog reader                           *)
(* (get_postgres_schema_with_relations), the two renderers                 *)
(* (generate_erd_graphviz, generate_erd_networkx) and the button handlers  *)
(* of streamlit_db_visualizer.                                             *)
(*                                                                         *)
(* The database is the environment.  Its content is a set of relations and *)
(* a set of foreign-key constraints taken from a fixed universe; the       *)
(* information_schema views and pg_indexes are derived from that content   *)
(* row by row, and the program's five SQL statements are evaluated over    *)
(* those rows as nested-loop joins with the ON / WHERE conditions of the   *)
(* source text.  Python dicts are functions whose DOMAIN is the key set,   *)
(* Python lists are sequences, str is STRING and an f-string is \o.        *)
(***************************************************************************)
EXTENDS Integers, Sequences, FiniteSets, TLC

VARIABLES db, session_state, call

vars == <<db, session_state, call>>

(***************************************************************************)
(* Bounds.                                                                 *)
(***************************************************************************)
\* largest number of relations the database holds at a time
MaxTables == 3
\* largest number of foreign-key constraints the database holds at a time
MaxFks == 2

(***************************************************************************)
(* Generic helpers.                                                        *)
(***************************************************************************)
RECURSIVE Concat(_)
Concat(ss) == IF ss = <<>> THEN <<>> ELSE Head(ss) \o Concat(Tail(ss))

\* d[key] = value of a Python dict
DictSet(d, key, value) ==
    [k \in (DOMAIN d) \cup {key} |-> IF k = key THEN value ELSE d[k]]

\* d.get(key, default) of a Python dict
DictGet(d, key, default) == IF key \in DOMAIN d THEN d[key] ELSE default

EmptyDict == [k \in {} |-> 0]

\* the elements of a sequence
Range(s) == {s[i] : i \in DOMAIN s}

(***************************************************************************)
(* The universe of relations and foreign keys a database may hold.         *)
(* TableDefs is listed in (table_schema, table_name) order, so ascending   *)
(* index is the order ORDER BY table_schema, table_name delivers.  A       *)
(* primary key carries PostgreSQL's default name <table>_pkey, which two   *)
(* tables of the same name in different schemas share.                     *)
(***************************************************************************)
Col(n, t, nl) == [name |-> n, type |-> t, nullable |-> nl]

TableDefs == <<
    [schema |-> "a", name |-> "b.c", type |-> "BASE TABLE",
     cols |-> <<Col("id", "integer", "NO")>>,
     pk |-> "b.c_pkey", pkcols |-> <<"id">>],
    [schema |-> "a", name |-> "p", type |-> "BASE TABLE",
     cols |-> <<Col("x", "integer", "NO"), Col("y", "integer", "NO")>>,
     pk |-> "p_pkey", pkcols |-> <<"x", "y">>],
    [schema |-> "a", name |-> "q", type |-> "BASE TABLE",
     cols |-> <<Col("id", "integer", "NO"), Col("px", "integer", "YES"),
                Col("py", "integer", "YES"), Col("r", "integer", "YES")>>,
     pk |-> "q_pkey", pkcols |-> <<"id">>],
    [schema |-> "a", name |-> "v", type |-> "VIEW",
     cols |-> <<Col("id", "integer", "YES")>>,
     pk |-> "", pkcols |-> <<>>],
    [schema |-> "a.b", name |-> "c", type |-> "BASE TABLE",
     cols |-> <<Col("key", "text", "NO"), Col("val", "text", "YES")>>,
     pk |-> "c_pkey", pkcols |-> <<"key">>],
    [schema |-> "information_schema", name |-> "p", type |-> "BASE TABLE",
     cols |-> <<Col("id", "integer", "NO")>>,
     pk |-> "p_pkey", pkcols |-> <<"id">>] >>

TableIds == DOMAIN TableDefs

\* from / to are indexes into TableDefs
FkDefs == <<
    [name |-> "fk_p",    from |-> 3, cols |-> <<"px", "py">>, to |-> 2, refcols |-> <<"x", "y">>],
    [name |-> "fk_id",   from |-> 3, cols |-> <<"id">>,       to |-> 1, refcols |-> <<"id">>],
    [name |-> "fk_r",    from |-> 3, cols |-> <<"r">>,        to |-> 1, refcols |-> <<"id">>],
    [name |-> "fk_z",    from |-> 3, cols |-> <<"r">>,        to |-> 6, refcols |-> <<"id">>],
    [name |-> "fk_back", from |-> 1, cols |-> <<"id">>,       to |-> 3, refcols |-> <<"id">>],
    [name |-> "fk_px",   from |-> 3, cols |-> <<"px">>,       to |-> 2, refcols |-> <<"x">>] >>

FkIds == DOMAIN FkDefs

\* a database content: which relations and which foreign keys exist
DbOk(d) ==
    /\ d.tables \subseteq TableIds
    /\ d.fks \subseteq FkIds
    /\ Cardinality(d.tables) <= MaxTables
    /\ Cardinality(d.fks) <= MaxFks
    /\ \A f \in d.fks : FkDefs[f].from \in d.tables /\ FkDefs[f].to \in d.tables

(***************************************************************************)
(* The catalog views, as row sequences.  The rows a relation t or a        *)
(* foreign key k (from table ft, to table tt) contributes to each view:    *)
(***************************************************************************)
TablesRow(t) ==
    << [table_schema |-> t.schema, table_name |-> t.name,
        table_type |-> t.type] >>

ColumnsRows(t) ==
    [j \in DOMAIN t.cols |->
        [table_schema |-> t.schema, table_name |-> t.name,
         column_name |-> t.cols[j].name, data_type |-> t.cols[j].type,
         is_nullable |-> t.cols[j].nullable, ordinal_position |-> j]]

PkConstraintRow(t) ==
    IF t.pk = "" THEN <<>>
    ELSE << [constraint_name |-> t.pk, table_schema |-> t.schema,
             table_name |-> t.name, constraint_type |-> "PRIMARY KEY"] >>

FkConstraintRow(k, ft) ==
    << [constraint_name |-> k.name, table_schema |-> ft.schema,
        table_name |-> ft.name, constraint_type |-> "FOREIGN KEY"] >>

\* the columns a constraint named cname has on / refers to in relation t
ConstraintColumnRows(cname, t, cols) ==
    [j \in DOMAIN cols |->
        [constraint_name |-> cname, table_schema |-> t.schema,
         table_name |-> t.name, column_name |-> cols[j]]]

IndexRow(t) ==
    IF t.pk = "" THEN <<>>
    ELSE << [schemaname |-> t.schema, tablename |-> t.name,
             indexname |-> t.pk,
             indexdef |-> "CREATE UNIQUE INDEX " \o t.pk] >>

\* information_schema.tables
info_tables(d) ==
    Concat([i \in TableIds |->
        IF i \in d.tables THEN TablesRow(TableDefs[i]) ELSE <<>>])

\* information_schema.columns
info_columns(d) ==
    Concat([i \in TableIds |->
        IF i \in d.tables THEN ColumnsRows(TableDefs[i]) ELSE <<>>])

TableOf(i) == TableDefs[i]

\* information_schema.table_constraints
info_table_constraints(d) ==
    Concat([i \in TableIds |->
        IF i \in d.tables THEN PkConstraintRow(TableOf(i)) ELSE <<>>])
    \o
    Concat([f \in FkIds |->
        IF f \in d.fks
        THEN FkConstraintRow(FkDefs[f], TableOf(FkDefs[f].from))
        ELSE <<>>])

PkColumnRows(t) ==
    IF t.pk = "" THEN <<>> ELSE ConstraintColumnRows(t.pk, t, t.pkcols)

FkLocalRows(k) == ConstraintColumnRows(k.name, TableOf(k.from), k.cols)

FkReferencedRows(k) == ConstraintColumnRows(k.name, TableOf(k.to), k.refcols)

\* information_schema.key_column_usage: the constrained (local) columns
info_key_column_usage(d) ==
    Concat([i \in TableIds |->
        IF i \in d.tables THEN PkColumnRows(TableOf(i)) ELSE <<>>])
    \o
    Concat([f \in FkIds |->
        IF f \in d.fks THEN FkLocalRows(FkDefs[f]) ELSE <<>>])

\* information_schema.constraint_column_usage: for a primary key its own
\* columns, for a foreign key the referenced columns
info_constraint_column_usage(d) ==
    Concat([i \in TableIds |->
        IF i \in d.tables THEN PkColumnRows(TableOf(i)) ELSE <<>>])
    \o
    Concat([f \in FkIds |->
        IF f \in d.fks THEN FkReferencedRows(FkDefs[f]) ELSE <<>>])

\* pg_indexes: the unique index behind each primary key
pg_indexes(d) ==
    Concat([i \in TableIds |->
        IF i \in d.tables THEN IndexRow(TableOf(i)) ELSE <<>>])

(***************************************************************************)
(* The five SQL statements of get_postgres_schema_with_relations.  Each    *)
(* returns cursor.fetchall(): a sequence of row tuples.  A statement is    *)
(* evaluated over the views as a nested-loop join; the WHERE conditions    *)
(* on the outermost view are tested first, which selects the same rows.    *)
(* Statements 3 to 5 have no ORDER BY: the rows come in the order of the   *)
(* loops here, and no property below depends on that order.                *)
(***************************************************************************)
SystemSchemas == {"information_schema", "pg_catalog", "pg_toast"}

SelectTables(T) ==
    Concat([i \in DOMAIN T |->
        IF /\ T[i].table_schema \notin SystemSchemas
           /\ T[i].table_type = "BASE TABLE"
        THEN << <<T[i].table_schema, T[i].table_name>> >>
        ELSE <<>>])

\* statement 1: the base tables outside the system schemas
QueryTables(d) == SelectTables(info_tables(d))

\* ORDER BY ordinal_position, by insertion
RECURSIVE InsertByPosition(_, _)
InsertByPosition(sorted, row) ==
    IF sorted = <<>> THEN <<row>>
    ELSE IF row[4] < Head(sorted)[4] THEN <<row>> \o sorted
    ELSE <<Head(sorted)>> \o InsertByPosition(Tail(sorted), row)

RECURSIVE SortByPosition(_)
SortByPosition(rows) ==
    IF rows = <<>> THEN <<>>
    ELSE InsertByPosition(SortByPosition(Tail(rows)), Head(rows))

SelectColumns(C, schema, table) ==
    Concat([i \in DOMAIN C |->
        IF C[i].table_schema = schema /\ C[i].table_name = table
        THEN << <<C[i].column_name, C[i].data_type, C[i].is_nullable,
                  C[i].ordinal_position>> >>
        ELSE <<>>])

\* statement 2: the columns of one table
QueryColumns(d, schema, table) ==
    SortByPosition(SelectColumns(info_columns(d), schema, table))

\* tc JOIN ccu ON constraint_name, selecting ccu.column_name
JoinPrimaryKeys_NoColumnsJoin(tc, ccu, c, schema, table) ==
    Concat([i \in DOMAIN tc |->
      IF /\ tc[i].constraint_type = "PRIMARY KEY"
         /\ tc[i].table_schema = schema
         /\ tc[i].table_name = table
      THEN Concat([j \in DOMAIN ccu |->
             IF tc[i].constraint_name = ccu[j].constraint_name
             THEN << <<ccu[j].column_name>> >>
             ELSE <<>>])
      ELSE <<>>])

\* tc JOIN ccu ON constraint_name JOIN columns c ON the constraint's own
\* table and ccu's column name
JoinPrimaryKeys(tc, ccu, c, schema, table) ==
    Concat([i \in DOMAIN tc |->
      IF /\ tc[i].constraint_type = "PRIMARY KEY"
         /\ tc[i].table_schema = schema
         /\ tc[i].table_name = table
      THEN Concat([j \in DOMAIN ccu |->
             IF tc[i].constraint_name = ccu[j].constraint_name
             THEN Concat([k \in DOMAIN c |->
                    IF /\ c[k].table_schema = tc[i].table_schema
                       /\ c[k].table_name = tc[i].table_name
                       /\ c[k].column_name = ccu[j].column_name
                    THEN << <<c[k].column_name>> >>
                    ELSE <<>>])
             ELSE <<>>])
      ELSE <<>>])

\* statement 3: the primary-key columns of one table
QueryPrimaryKeys(d, schema, table) ==
    JoinPrimaryKeys(info_table_constraints(d),
                    info_constraint_column_usage(d),
                    info_columns(d), schema, table)

\* tc JOIN kcu ON constraint_name and table_schema JOIN ccu ON
\* constraint_name
JoinForeignKeys(tc, kcu, ccu, schema, table) ==
    Concat([i \in DOMAIN tc |->
      IF /\ tc[i].constraint_type = "FOREIGN KEY"
         /\ tc[i].table_schema = schema
         /\ tc[i].table_name = table
      THEN Concat([j \in DOMAIN kcu |->
             IF /\ tc[i].constraint_name = kcu[j].constraint_name
                /\ tc[i].table_schema = kcu[j].table_schema
             THEN Concat([k \in DOMAIN ccu |->
                    IF ccu[k].constraint_name = tc[i].constraint_name
                    THEN << <<kcu[j].column_name, ccu[k].table_schema,
                              ccu[k].table_name, ccu[k].column_name>> >>
                    ELSE <<>>])
             ELSE <<>>])
      ELSE <<>>])

\* statement 4: the foreign keys of one table
QueryForeignKeys(d, schema, table) ==
    JoinForeignKeys(info_table_constraints(d), info_key_column_usage(d),
                    info_constraint_column_usage(d), schema, table)

SelectIndexes(X, schema, table) ==
    Concat([i \in DOMAIN X |->
        IF X[i].schemaname = schema /\ X[i].tablename = table
        THEN << <<X[i].indexname, X[i].indexdef>> >>
        ELSE <<>>])

\* statement 5: the indexes of one table
QueryIndexes(d, schema, table) == SelectIndexes(pg_indexes(d), schema, table)

(***************************************************************************)
(* get_postgres_schema_with_relations.  `ok` is the number of              *)
(* cursor.execute calls that succeed before one raises: -1 means           *)
(* psycopg2.connect itself raises, NumExecutes(d) means none raises.       *)
(***************************************************************************)
NumExecutes(d) == 1 + 4 * Len(QueryTables(d))

\* the dict literal bound to schema_info
NewSchemaInfo ==
    [tables |-> <<>>, columns |-> EmptyDict, primary_keys |-> EmptyDict,
     foreign_keys |-> <<>>, indexes |-> EmptyDict]

\* f"{schema}.{table}"
TableFull(schema, table) == schema \o "." \o table

\* the list comprehension over the column rows
ColumnInfos(columns) ==
    [c \in DOMAIN columns |->
        [name |-> columns[c][1], type |-> columns[c][2],
         nullable |-> columns[c][3], position |-> columns[c][4]]]

\* [pk[0] for pk in pk_columns]
PkNames(pk_columns) == [p \in DOMAIN pk_columns |-> pk_columns[p][1]]

\* the dicts appended for the foreign-key rows of one table
FkEdges(fks, schema, table) ==
    [f \in DOMAIN fks |->
        [from_table |-> TableFull(schema, table),
         from_column |-> fks[f][1],
         to_table |-> TableFull(fks[f][2], fks[f][3]),
         to_column |-> fks[f][4]]]

\* the list comprehension over the index rows
IndexInfos(indexes) ==
    [x \in DOMAIN indexes |->
        [name |-> indexes[x][1], definition |-> indexes[x][2]]]

\* one iteration of the table loop, of which the first n executes succeed;
\* the statement after the failing execute is not reached
LoopBody(d, info, schema, table, n) ==
    [info EXCEPT
       !.tables = Append(@, TableFull(schema, table)),
       !.columns =
           IF n >= 1
           THEN DictSet(@, TableFull(schema, table),
                        ColumnInfos(QueryColumns(d, schema, table)))
           ELSE @,
       !.primary_keys =
           IF n >= 2
           THEN DictSet(@, TableFull(schema, table),
                        PkNames(QueryPrimaryKeys(d, schema, table)))
           ELSE @,
       !.foreign_keys =
           IF n >= 3
           THEN @ \o FkEdges(QueryForeignKeys(d, schema, table), schema, table)
           ELSE @,
       !.indexes =
           IF n >= 4
           THEN DictSet(@, TableFull(schema, table),
                        IndexInfos(QueryIndexes(d, schema, table)))
           ELSE @]

\* for schema, table in tables: ... with n executes still succeeding
RECURSIVE TableLoop(_, _, _, _)
TableLoop(d, tables, info, n) ==
    IF tables = <<>> THEN [schema_info |-> info, raised |-> FALSE]
    ELSE IF n < 4
    THEN [schema_info |-> LoopBody(d, info, Head(tables)[1], Head(tables)[2], n),
          raised |-> TRUE]
    ELSE TableLoop(d, Tail(tables),
                   LoopBody(d, info, Head(tables)[1], Head(tables)[2], 4), n - 4)

\* leaving the function: conn.close() and return, or the exception passing
\* line 117 by
Leave(r) ==
    [raised |-> r.raised, connected |-> 1,
     closed |-> IF r.raised THEN 0 ELSE 1,
     schema_info |-> r.schema_info]

\* the whole call: what it leaves behind when control is back at the caller
get_postgres_schema_with_relations(d, ok) ==
    IF ok < 0
    THEN \* psycopg2.connect raises
         [raised |-> TRUE, connected |-> 0, closed |-> 0,
          schema_info |-> NewSchemaInfo]
    ELSE IF ok = 0
    THEN \* the table listing raises
         [raised |-> TRUE, connected |-> 1, closed |-> 0,
          schema_info |-> NewSchemaInfo]
    ELSE Leave(TableLoop(d, QueryTables(d), NewSchemaInfo, ok - 1))

(***************************************************************************)
(* generate_erd_graphviz.  The Digraph is its node statements and its edge *)
(* statements, in the order dot.node / dot.edge were called.               *)
(***************************************************************************)
\* stands for the key emoji that line 137 puts before a primary-key column
KeyMark == "(key)"

\* one row of the HTML-like label
LabelRow(col, isPk) ==
    "<TR><TD BGCOLOR='" \o (IF isPk THEN "lightgreen" ELSE "white") \o "'>"
    \o (IF isPk THEN KeyMark \o " " \o col.name ELSE col.name)
    \o "</TD><TD>" \o col.type \o "</TD></TR>"

\* the rows of the label, one per column of the table
RECURSIVE LabelRows(_, _, _)
LabelRows(schema_info, table, cols) ==
    IF cols = <<>> THEN ""
    ELSE LabelRow(Head(cols),
                  /\ table \in DOMAIN schema_info.primary_keys
                  /\ Head(cols).name \in Range(schema_info.primary_keys[table]))
         \o LabelRows(schema_info, table, Tail(cols))

NodeLabel(schema_info, table) ==
    "<<TABLE BORDER='1' CELLBORDER='1' CELLSPACING='0'>"
    \o "<TR><TD COLSPAN='2' BGCOLOR='lightblue'><B>" \o table \o "</B></TD></TR>"
    \o LabelRows(schema_info, table, schema_info.columns[table])
    \o "</TABLE>>"

\* f"{fk['from_column']} → {fk['to_column']}"
EdgeLabel(fk) == fk.from_column \o " → " \o fk.to_column

\* for table in schema_info['tables']: dot.node(...)
GraphvizNodes(schema_info) ==
    [i \in DOMAIN schema_info.tables |->
        [name |-> schema_info.tables[i],
         label |-> NodeLabel(schema_info, schema_info.tables[i]),
         shape |-> "plaintext"]]

GraphvizEdge(fk) ==
    [tail_name |-> fk.from_table, head_name |-> fk.to_table,
     label |-> EdgeLabel(fk), color |-> "blue", fontsize |-> "10"]

\* one edge per (from_table, to_table) pair instead of one per entry
GraphvizEdges_Merged(schema_info) ==
    LET fks == schema_info.foreign_keys
        first == {i \in DOMAIN fks :
                    \A j \in 1 .. i - 1 :
                        \/ fks[j].from_table # fks[i].from_table
                        \/ fks[j].to_table # fks[i].to_table}
    IN Concat([i \in DOMAIN fks |->
         IF i \in first THEN <<GraphvizEdge(fks[i])>> ELSE <<>>])

\* for fk in schema_info['foreign_keys']: dot.edge(...)
GraphvizEdges(schema_info) ==
    [i \in DOMAIN schema_info.foreign_keys |->
        GraphvizEdge(schema_info.foreign_keys[i])]

\* schema_info['columns'][table] raises KeyError for a table without entry
ColumnsKeyError(schema_info) ==
    \E i \in DOMAIN schema_info.tables :
        schema_info.tables[i] \notin DOMAIN schema_info.columns

generate_erd_graphviz(schema_info) ==
    IF ColumnsKeyError(schema_info)
    THEN [raised |-> TRUE, artifact |-> EmptyDict]
    ELSE [raised |-> FALSE,
          artifact |-> [kind |-> "dot", rankdir |-> "LR",
                        nodes |-> GraphvizNodes(schema_info),
                        edges |-> GraphvizEdges(schema_info)]]

(***************************************************************************)
(* generate_erd_networkx.  The DiGraph is its nodes in insertion order,    *)
(* the attribute dict of each node, and its edges in insertion order; a    *)
(* DiGraph holds each node and each (u, v) once.                           *)
(***************************************************************************)
NodeScale == 100
DefaultNodeSize == 2000

NewDiGraph == [nodes |-> <<>>, attrs |-> EmptyDict, edges |-> <<>>]

\* G.add_node(n, **attr): a new node, or an update of an existing node
AddNode(G, n, attr) ==
    IF n \in Range(G.nodes)
    THEN [G EXCEPT !.attrs = DictSet(@, n,
            [a \in (DOMAIN G.attrs[n]) \cup (DOMAIN attr) |->
                IF a \in DOMAIN attr THEN attr[a] ELSE G.attrs[n][a]])]
    ELSE [G EXCEPT !.nodes = Append(@, n), !.attrs = DictSet(@, n, attr)]

\* a node that add_edge met for the first time gets no attribute
EnsureNode(G, n) == IF n \in Range(G.nodes) THEN G ELSE AddNode(G, n, EmptyDict)

AddPair(G, u, v) ==
    IF <<u, v>> \in Range(G.edges) THEN G
    ELSE [G EXCEPT !.edges = Append(@, <<u, v>>)]

\* G.add_edge(u, v): missing end points become nodes without attributes
AddEdge(G, u, v) == AddPair(EnsureNode(EnsureNode(G, u), v), u, v)

\* the size attribute with the factor of the unused node_size of line 167
NodeSizeAttr_Scale300(schema_info, table) ==
    [a \in {"size"} |-> Len(schema_info.columns[table]) * 300]

\* the size attribute given to the node of a table
NodeSizeAttr(schema_info, table) ==
    [a \in {"size"} |-> Len(schema_info.columns[table]) * NodeScale]

\* for table in schema_info['tables']: G.add_node(table, size=...)
RECURSIVE AddTableNodes(_, _, _)
AddTableNodes(G, schema_info, tables) ==
    IF tables = <<>> THEN G
    ELSE AddTableNodes(AddNode(G, Head(tables),
                               NodeSizeAttr(schema_info, Head(tables))),
                       schema_info, Tail(tables))

\* for fk in schema_info.get('foreign_keys', []): G.add_edge(...)
RECURSIVE AddFkEdges(_, _)
AddFkEdges(G, fks) ==
    IF fks = <<>> THEN G
    ELSE AddFkEdges(AddEdge(G, Head(fks).from_table, Head(fks).to_table),
                    Tail(fks))

\* the label of a pair is set once and kept
RECURSIVE EdgeLabels_KeepFirst(_, _)
EdgeLabels_KeepFirst(edge_labels, fks) ==
    IF fks = <<>> THEN edge_labels
    ELSE EdgeLabels_KeepFirst(
            IF <<Head(fks).from_table, Head(fks).to_table>> \in DOMAIN edge_labels
            THEN edge_labels
            ELSE DictSet(edge_labels,
                         <<Head(fks).from_table, Head(fks).to_table>>,
                         EdgeLabel(Head(fks))),
            Tail(fks))

\* edge_labels[(from_table, to_table)] = ..., entry by entry
RECURSIVE EdgeLabels(_, _)
EdgeLabels(edge_labels, fks) ==
    IF fks = <<>> THEN edge_labels
    ELSE EdgeLabels(DictSet(edge_labels,
                            <<Head(fks).from_table, Head(fks).to_table>>,
                            EdgeLabel(Head(fks))),
                    Tail(fks))

\* [G.nodes[n].get('size', 2000) for n in G.nodes]
NodeSizes(G) ==
    [i \in DOMAIN G.nodes |-> DictGet(G.attrs[G.nodes[i]], "size", DefaultNodeSize)]

\* what the draw_networkx_* calls put on the figure
Figure(G, edge_labels) ==
    [kind |-> "fig", nodes |-> G.nodes, node_sizes |-> NodeSizes(G),
     edges |-> G.edges, edge_labels |-> edge_labels]

generate_erd_networkx(schema_info) ==
    IF ColumnsKeyError(schema_info)
    THEN [raised |-> TRUE, artifact |-> EmptyDict]
    ELSE [raised |-> FALSE,
          artifact |->
              Figure(AddFkEdges(AddTableNodes(NewDiGraph, schema_info,
                                              schema_info.tables),
                                schema_info.foreign_keys),
                     EdgeLabels(EmptyDict, schema_info.foreign_keys))]

(***************************************************************************)
(* State.                                                                  *)
(*   db             what the database holds; the environment, fixed over a *)
(*                  behaviour and drawn from Databases by Init             *)
(*   session_state  st.session_state; the key 'schema_info' is absent      *)
(*                  until an extraction succeeded                          *)
(*   call           what the last button handler did: which one, whether   *)
(*                  the core call raised, the connections it opened and    *)
(*                  closed by the time control was back, where an          *)
(*                  extraction stopped, and the artifact of a render       *)
(***************************************************************************)
NoCall ==
    [op |-> "none", raised |-> FALSE, connected |-> 0, closed |-> 0,
     stage |-> "none", artifact |-> EmptyDict]

\* the databases within the bounds
Databases == {d \in [tables : SUBSET TableIds, fks : SUBSET FkIds] : DbOk(d)}

Init ==
    /\ db \in Databases
    /\ session_state = EmptyDict
    /\ call = NoCall

(***************************************************************************)
(* The button handlers of streamlit_db_visualizer.                         *)
(***************************************************************************)
\* where an extraction that performed `ok` executes stopped
Stage(ok, total) ==
    CASE ok < 0 -> "connect"
      [] ok = 0 -> "tables"
      [] ok > 0 /\ ok < total -> "loop"
      [] OTHER -> "done"

LoadCall(r, stage) ==
    [op |-> "load", raised |-> r.raised, connected |-> r.connected,
     closed |-> r.closed, stage |-> stage, artifact |-> EmptyDict]

\* the handler storing whatever the extraction had built when it raised
TryExtract_StorePartial(r, stage) ==
    /\ session_state' = DictSet(session_state, "schema_info", r.schema_info)
    /\ call' = LoadCall(r, stage)
    /\ UNCHANGED db

\* try: schema_info = ...; st.session_state['schema_info'] = schema_info
\* except Exception: st.error
TryExtract(r, stage) ==
    /\ session_state' = IF r.raised THEN session_state
                        ELSE DictSet(session_state, "schema_info", r.schema_info)
    /\ call' = LoadCall(r, stage)
    /\ UNCHANGED db

\* the "load schema" button
LoadSchema(ok) ==
    TryExtract(get_postgres_schema_with_relations(db, ok),
               Stage(ok, NumExecutes(db)))

LoadSchemaButton == \E ok \in -1 .. NumExecutes(db) : LoadSchema(ok)

\* backend_ok: the display call of the handler / the drawing calls of the
\* renderer do not raise
RenderCall(op, r, backend_ok) ==
    [op |-> op, raised |-> r.raised \/ ~backend_ok,
     connected |-> 0, closed |-> 0, stage |-> "none",
     artifact |-> IF backend_ok THEN r.artifact ELSE EmptyDict]

\* the handler dropping the loaded schema when the render raises
TryRender_DropOnError(op, r, backend_ok) ==
    /\ call' = RenderCall(op, r, backend_ok)
    /\ session_state' = IF r.raised \/ ~backend_ok THEN EmptyDict
                        ELSE session_state
    /\ UNCHANGED db

\* try: render, display; except Exception: st.error
TryRender(op, r, backend_ok) ==
    /\ call' = RenderCall(op, r, backend_ok)
    /\ UNCHANGED <<db, session_state>>

\* the "generate ER diagram" button of tab 1
GenerateErd(backend_ok) ==
    /\ "schema_info" \in DOMAIN session_state
    /\ TryRender("graphviz",
                 generate_erd_graphviz(session_state["schema_info"]),
                 backend_ok)

GenerateErdButton == \E backend_ok \in BOOLEAN : GenerateErd(backend_ok)

\* the "generate graph" button of tab 2
GenerateGraph(backend_ok) ==
    /\ "schema_info" \in DOMAIN session_state
    /\ TryRender("networkx",
                 generate_erd_networkx(session_state["schema_info"]),
                 backend_ok)

GenerateGraphButton == \E backend_ok \in BOOLEAN : GenerateGraph(backend_ok)

Next ==
    \/ LoadSchemaButton
    \/ GenerateErdButton
    \/ GenerateGraphButton

Spec == Init /\ [][Next]_vars

TypeOK == DbOk(db)

(***************************************************************************)
(* Properties.                                                             *)
(***************************************************************************)
Loaded == "schema_info" \in DOMAIN session_state

Schema == session_state["schema_info"]

RenderOps == {"graphviz", "networkx"}

\* the relations of d that statement 1 is meant to list
Listed(d) ==
    {i \in d.tables : /\ TableDefs[i].type = "BASE TABLE"
                      /\ TableDefs[i].schema \notin SystemSchemas}

QualifiedName(i) == TableDefs[i].schema \o "." \o TableDefs[i].name

CountIn(seq, e) == Cardinality({i \in DOMAIN seq : seq[i] = e})

\* C1: every extraction that got a connection opened exactly one and had
\* closed it by the time control was back at the caller, whether it returned
\* a model or a catalog query raised.
C1_ConnectionClosedOnEveryExit ==
    (call.op = "load" /\ call.stage # "connect")
        => (call.connected = 1 /\ call.closed = 1)

\* a model that one whole extraction of d filled: every listed table has its
\* entry in columns, primary_keys and indexes
CompleteModel(info, d) ==
    /\ Len(info.tables) = Cardinality(Listed(d))
    /\ DOMAIN info.columns = Range(info.tables)
    /\ DOMAIN info.primary_keys = Range(info.tables)
    /\ DOMAIN info.indexes = Range(info.tables)

\* C2: a failed extraction leaves the shell's stored schema exactly as it
\* was (absent or the earlier model), the stored schema is never a partly
\* filled model, and a successful extraction stores a complete model.
C2_FailedExtractionKeepsSchema ==
    /\ [](Loaded => CompleteModel(Schema, db))
    /\ [][(call'.op = "load" /\ call'.raised)
            => session_state' = session_state]_vars
    /\ [][(call'.op = "load" /\ ~call'.raised)
            => "schema_info" \in DOMAIN session_state']_vars

C2_Witness ==
    /\ call.op = "load" /\ call.raised /\ call.stage = "loop"
    /\ Loaded
    /\ Len(Schema.tables) >= 2

\* C3: a render, succeeding or raising, leaves the stored schema present and
\* equal to what it was before the render.
C3_RenderKeepsSchema ==
    [][call'.op \in RenderOps
         => (session_state' = session_state
             /\ "schema_info" \in DOMAIN session_state')]_vars

C3_Witness ==
    /\ call.op = "graphviz" /\ call.raised
    /\ Loaded
    /\ Schema.tables # <<>>

\* the edges the foreign keys of d stand for: one per constrained column,
\* paired with the referenced column of the same position
ExpectedEdges(d) ==
    Concat([f \in FkIds |->
        IF f \in d.fks /\ FkDefs[f].from \in Listed(d)
        THEN [j \in DOMAIN FkDefs[f].cols |->
                [from_table |-> QualifiedName(FkDefs[f].from),
                 from_column |-> FkDefs[f].cols[j],
                 to_table |-> QualifiedName(FkDefs[f].to),
                 to_column |-> FkDefs[f].refcols[j]]]
        ELSE <<>>])

\* C4: the extracted foreign_keys holds, for every foreign-key constraint,
\* exactly one edge per constrained column, to the table and column that
\* this column references, and no other edge.
C4_OneEdgePerConstrainedColumn ==
    Loaded =>
        \A e \in Range(Schema.foreign_keys) \cup Range(ExpectedEdges(db)) :
            CountIn(Schema.foreign_keys, e) = CountIn(ExpectedEdges(db), e)

\* C5: the identifiers in tables of an extracted model are pairwise
\* distinct, one per (schema, table) pair of the catalog.
C5_TableIdentifiersDistinct ==
    Loaded =>
        /\ \A i, j \in DOMAIN Schema.tables :
              i # j => Schema.tables[i] # Schema.tables[j]
        /\ Cardinality(DOMAIN Schema.columns) = Cardinality(Listed(db))

\* C6: in an extracted model every name in primary_keys[t] is the name of a
\* column in columns[t], for every table t.
C6_PrimaryKeysAreColumns ==
    Loaded =>
        \A i \in DOMAIN Schema.tables :
            LET t == Schema.tables[i] IN
            \A p \in DOMAIN Schema.primary_keys[t] :
                \E c \in DOMAIN Schema.columns[t] :
                    Schema.columns[t][c].name = Schema.primary_keys[t][p]

\* a model with a primary key, from a database where another schema has a
\* primary key constraint of the same name
C6_Witness ==
    /\ Loaded
    /\ {2, 6} \subseteq db.tables
    /\ "a.p" \in DOMAIN Schema.primary_keys
    /\ Schema.primary_keys["a.p"] = <<"x", "y">>

\* C7: the hierarchical diagram has one edge per entry of foreign_keys, in
\* order, from from_table to to_table, labelled 'from_column → to_column';
\* entries of the same table pair are not merged.
C7_GraphvizOneEdgePerForeignKey ==
    (call.op = "graphviz" /\ ~call.raised) =>
        LET edges == call.artifact.edges
            fks == Schema.foreign_keys
        IN /\ Len(edges) = Len(fks)
           /\ \A i \in DOMAIN fks :
                /\ edges[i].tail_name = fks[i].from_table
                /\ edges[i].head_name = fks[i].to_table
                /\ edges[i].label = fks[i].from_column \o " → " \o fks[i].to_column

C7_Witness ==
    /\ call.op = "graphviz" /\ ~call.raised
    /\ \E i, j \in DOMAIN call.artifact.edges :
          /\ i < j
          /\ call.artifact.edges[i].tail_name = call.artifact.edges[j].tail_name
          /\ call.artifact.edges[i].head_name = call.artifact.edges[j].head_name
          /\ call.artifact.edges[i].label # call.artifact.edges[j].label

\* C8: for a model without foreign keys each renderer's artifact has no
\* edge and exactly len(tables) nodes.
C8_NoForeignKeysNoEdges ==
    (call.op \in RenderOps /\ ~call.raised /\ Schema.foreign_keys = <<>>) =>
        /\ Len(call.artifact.edges) = 0
        /\ Len(call.artifact.nodes) = Len(Schema.tables)

\* C9 as stated: every node of the force-directed graph, a node that is
\* only the target of a foreign key included, has size column count times
\* one scale constant.
C9_EveryNodeSizeProportional ==
    (call.op = "networkx" /\ ~call.raised) =>
        \E K \in {100, 300} :
            \A i \in DOMAIN call.artifact.nodes :
                call.artifact.node_sizes[i] =
                    Len(DictGet(Schema.columns, call.artifact.nodes[i], <<>>)) * K

\* C9 amended: every node of a table listed in tables has size column count
\* times 100; a node that is only the target of a foreign key has size 2000.
C9_TableNodeSizeProportional ==
    (call.op = "networkx" /\ ~call.raised) =>
        \A i \in DOMAIN call.artifact.nodes :
            LET n == call.artifact.nodes[i] IN
            IF n \in Range(Schema.tables)
            THEN call.artifact.node_sizes[i] = Len(Schema.columns[n]) * 100
            ELSE call.artifact.node_sizes[i] = 2000

C9_Witness ==
    /\ call.op = "networkx" /\ ~call.raised
    /\ \E i \in DOMAIN call.artifact.nodes :
          call.artifact.nodes[i] \notin Range(Schema.tables)
    /\ \E i \in DOMAIN call.artifact.nodes :
          /\ call.artifact.nodes[i] \in Range(Schema.tables)
          /\ call.artifact.node_sizes[i] > 0

FkPairs(fks) == {<<fks[i].from_table, fks[i].to_table>> : i \in DOMAIN fks}

LastOfPair(fks, pr) ==
    CHOOSE i \in DOMAIN fks :
        /\ <<fks[i].from_table, fks[i].to_table>> = pr
        /\ \A j \in DOMAIN fks :
              j > i => <<fks[j].from_table, fks[j].to_table>> # pr

\* C10: the force-directed graph has exactly one directed edge per distinct
\* (from_table, to_table) pair of foreign_keys, labelled with
\* 'from_column → to_column' of the last entry of that pair; the two
\* directions between two tables are two edges.
C10_NetworkxOneEdgePerPair ==
    (call.op = "networkx" /\ ~call.raised) =>
        LET a == call.artifact
            fks == Schema.foreign_keys
        IN /\ Range(a.edges) = FkPairs(fks)
           /\ Len(a.edges) = Cardinality(FkPairs(fks))
           /\ DOMAIN a.edge_labels = FkPairs(fks)
           /\ \A pr \in FkPairs(fks) :
                a.edge_labels[pr] =
                    fks[LastOfPair(fks, pr)].from_column \o " → "
                        \o fks[LastOfPair(fks, pr)].to_column

C10_Witness ==
    /\ call.op = "networkx" /\ ~call.raised
    /\ \E i, j \in DOMAIN Schema.foreign_keys :
          /\ i < j
          /\ Schema.foreign_keys[i].from_table = Schema.foreign_keys[j].from_table
          /\ Schema.foreign_keys[i].to_table = Schema.foreign_keys[j].to_table
          /\ EdgeLabel(Schema.foreign_keys[i]) # EdgeLabel(Schema.foreign_keys[j])
          /\ call.artifact.edge_labels[<<Schema.foreign_keys[j].from_table,
                                         Schema.foreign_keys[j].to_table>>]
                # EdgeLabel(Schema.foreign_keys[i])

====
